---- MODULE Spec2Model ----
(***************************************************************************)
(* A model of user_functions.py: a users table in an SQLite database and   *)
(* the four account operations (register_user, activate_user,              *)
(* authenticate_user, reset_password) plus create_database.                *)
(*                                                                         *)
(* Strings are tuples of one-character strings.  Every call is split at    *)
(* the SQL statements it executes: the code between two statements is      *)
(* local to the call.  A SELECT runs in autocommit mode and reads the      *)
(* committed table; an INSERT or UPDATE opens the connection's implicit    *)
(* transaction, which takes the database's single write lock and holds it  *)
(* until commit (or until the connection is finalised).  A writer that     *)
(* finds the lock taken waits; the busy timeout is not reached.            *)
(***************************************************************************)
EXTENDS Integers, Sequences, FiniteSets, TLC

\* ------------------------------------------------------------------ bounds
\* calls made in all, by concurrent callers and one at a time; the last timestamp
MaxCalls == 3
MaxSeqCalls == 4
MaxClock == 2
\* the longest password and the longest email handed to the validators
MaxPwLen == 2
MaxEmailLen == 7
\* calls made one at a time on a file that starts without a users table
MaxDbCalls == 3

Procs == {"p1", "p2"}

\* ------------------------------------------------------------- characters
Lower == {"a","b","c","d","e","f","g","h","i","j","k","l","m",
          "n","o","p","q","r","s","t","u","v","w","x","y","z"}
Upper == {"A","B","C","D","E","F","G","H","I","J","K","L","M",
          "N","O","P","Q","R","S","T","U","V","W","X","Y","Z"}
Letters == Lower \cup Upper
Digits == {"0","1","2","3","4","5","6","7","8","9"}
\* [!@#$%^&*(),.?\":{}|<>]
Specials == {"!","@","#","$","%","^","&","*","(",")",",",".","?","\"",
             ":","{","}","|","<",">"}
\* [a-zA-Z0-9._%+-]
LocalChars == Letters \cup Digits \cup {".","_","%","+","-"}
\* [a-zA-Z0-9.-]
DomainChars == Letters \cup Digits \cup {".","-"}

\* ---------------------------------------------------------------- inputs
E1 == <<"a","@","b",".","c","o">>
E2 == <<"c","@","b",".","c","o">>
EBad == <<"a","b",".","c","o">>
Emails == {E1, E2, EBad}

P1 == <<"a","1","!">>
P2 == <<"b","2","?">>
PBad == <<"a","b","!">>
Passwords == {P1, P2, PBad}

\* ------------------------------------------------------------- validator
AllIn(s, lo, hi, chars) == \A n \in lo..hi : s[n] \in chars

\* re.search(r"[0-9]", password) and re.search(r"[!@#$%^&*(),.?\":{}|<>]", password)
is_valid_password_either(password) ==
    \/ \E i \in 1..Len(password) : password[i] \in Digits
    \/ \E j \in 1..Len(password) : password[j] \in Specials

is_valid_password(password) ==
    /\ \E i \in 1..Len(password) : password[i] \in Digits
    /\ \E j \in 1..Len(password) : password[j] \in Specials

is_valid_email_fullmatch(email) ==
    \E i \in 1..Len(email) :
        /\ AllIn(email, 1, i, LocalChars)
        /\ i + 1 <= Len(email) /\ email[i + 1] = "@"
        /\ \E j \in i + 2..Len(email) :
             /\ AllIn(email, i + 2, j, DomainChars)
             /\ j + 1 <= Len(email) /\ email[j + 1] = "."
             /\ Len(email) >= j + 3 /\ AllIn(email, j + 2, Len(email), Letters)

\* re.match(r"[a-zA-Z0-9._%+-]+@[a-zA-Z0-9.-]+\.[a-zA-Z]{2,}", email):
\* the local part is s[1..i], '@' is s[i+1], the domain is s[i+2..j],
\* the dot is s[j+1] and the letters are s[j+2..k]; anything may follow k.
is_valid_email(email) ==
    \E i \in 1..Len(email) :
        /\ AllIn(email, 1, i, LocalChars)
        /\ i + 1 <= Len(email) /\ email[i + 1] = "@"
        /\ \E j \in i + 2..Len(email) :
             /\ AllIn(email, i + 2, j, DomainChars)
             /\ j + 1 <= Len(email) /\ email[j + 1] = "."
             /\ \E k \in j + 3..Len(email) : AllIn(email, j + 2, k, Letters)

\* ---------------------------------------------------------------- hasher
\* hashlib.sha256(password.encode()).hexdigest(): a digest that determines
\* its input (no collisions among the inputs used) and is not the input.
hash_password(password) == <<"sha256:">> \o password

\* -------------------------------------------------------------- messages
MsgInvalidEmail == "Invalid email format"
MsgWeakPassword == "Password should contain at least one digit and one special character."
MsgDuplicate == "Email already registered"
MsgRegistered == "Registration successful"
MsgNotFound == "User not found"
MsgActivated == "User activated"
MsgAuthOk == "Authentication successful"
MsgAuthFail == "Invalid credentials or account not activated"
MsgReset == "Password reset successfully"
Messages == {MsgInvalidEmail, MsgWeakPassword, MsgDuplicate, MsgRegistered,
             MsgNotFound, MsgActivated, MsgAuthOk, MsgAuthFail, MsgReset}

\* What a call leaves its caller with: a (bool, message) pair, an exception
\* that propagates out of the call, or nothing yet.
Returned(ok, msg) == [kind |-> "return", ok |-> ok, msg |-> msg]
Raised(exc) == [kind |-> "raise", ok |-> FALSE, msg |-> exc]
NoResult == [kind |-> "none", ok |-> FALSE, msg |-> ""]
IsPair(r) == r.kind = "return" /\ r.ok \in BOOLEAN /\ r.msg \in Messages

\* ----------------------------------------------------------------- table
NULL == 0
NoConn == <<>>

\* SELECT ... FROM users WHERE email = ?
Matching(table, e) == {r \in table : r.email = e}

\* cursor.fetchone(): the first matching row in rowid order, or None
NoRow == [id |-> 0, email |-> <<>>, password |-> <<>>, is_active |-> 0,
          registration_date |-> 0, activation_date |-> 0]
\* the database file has no users table (no create_database has run on it)
NoTable == {NoRow}

fetchoneNone(rows) == NoRow

fetchone(rows) ==
    IF rows = {} THEN NoRow
    ELSE CHOOSE r \in rows : \A q \in rows : r.id <= q.id

\* id INTEGER PRIMARY KEY AUTOINCREMENT
MaxId(table) == IF table = {} THEN 0
                ELSE CHOOSE n \in {r.id : r \in table} : \A r \in table : r.id <= n
NextId(table) == MaxId(table) + 1

\* email TEXT UNIQUE NOT NULL: may a row with this email be inserted?
UniqueOkNone(table, e) == TRUE

UniqueOk(table, e) == Matching(table, e) = {}

\* INSERT INTO users (email, password, is_active) VALUES (?, ?, False);
\* registration_date defaults to CURRENT_TIMESTAMP, activation_date to NULL
NewRowPlain(table, e, password, t) ==
    [id |-> NextId(table), email |-> e, password |-> password,
     is_active |-> 0, registration_date |-> t, activation_date |-> NULL]

NewRowActive(table, e, password, t) ==
    [id |-> NextId(table), email |-> e, password |-> hash_password(password),
     is_active |-> 1, registration_date |-> t, activation_date |-> NULL]

NewRow(table, e, password, t) ==
    [id |-> NextId(table), email |-> e, password |-> hash_password(password),
     is_active |-> 0, registration_date |-> t, activation_date |-> NULL]

\* UPDATE users SET is_active = True, activation_date = CURRENT_TIMESTAMP WHERE email = ?
ActivateRowsNoDate(table, e, t) ==
    {IF r.email = e THEN [r EXCEPT !.is_active = 1] ELSE r : r \in table}

ActivateRowsDateOnly(table, e, t) ==
    {IF r.email = e THEN [r EXCEPT !.activation_date = t] ELSE r : r \in table}

ActivateRowsOnce(table, e, t) ==
    {IF r.email = e /\ r.is_active = 0
       THEN [r EXCEPT !.is_active = 1, !.activation_date = t]
       ELSE r : r \in table}

ActivateRows(table, e, t) ==
    {IF r.email = e THEN [r EXCEPT !.is_active = 1, !.activation_date = t] ELSE r
       : r \in table}

\* UPDATE users SET password = ? WHERE email = ?   (? = hash_password(new_password))
ResetRowsPlain(table, e, new_password) ==
    {IF r.email = e THEN [r EXCEPT !.password = new_password] ELSE r : r \in table}

ResetRowsDeactivate(table, e, new_password) ==
    {IF r.email = e
       THEN [r EXCEPT !.password = hash_password(new_password), !.is_active = 0,
                      !.activation_date = NULL]
       ELSE r : r \in table}

ResetRowsAll(table, e, new_password) ==
    {[r EXCEPT !.password = hash_password(new_password)] : r \in table}

ResetRowsClearDate(table, e, new_password) ==
    {IF r.email = e
       THEN [r EXCEPT !.password = hash_password(new_password), !.activation_date = NULL]
       ELSE r : r \in table}

ResetRows(table, e, new_password) ==
    {IF r.email = e THEN [r EXCEPT !.password = hash_password(new_password)] ELSE r
       : r \in table}

\* result and hash_password(password) == result[0] and result[1]
AuthAcceptsInactive(row, password) ==
    row # NoRow /\ hash_password(password) = row.password

AuthAccepts(row, password) ==
    row # NoRow /\ hash_password(password) = row.password /\ row.is_active # 0

\* ----------------------------------------------------------------- state
VARIABLES
    users,     \* the committed rows of the users table
    lock,      \* the connection holding the database's write lock, or NoConn
    txn,       \* txn[p]: the table as p's open transaction has written it
    conns,     \* the connections opened and not closed
    now,       \* CURRENT_TIMESTAMP when a statement last read it
    budget,    \* the number of calls still to be made
    pc,        \* pc[p]: the statement caller p's call is about to execute
    op,        \* op[p]: the operation p has called
    email,     \* email[p], password[p]: the arguments of p's call
    password,
    cid,       \* cid[p]: the connection of p's call
    result,    \* result[p]: what p's call has left its caller with
    hist       \* history: per email, what the successful calls have done

storeVars == <<users, lock, txn, conns, now>>
callVars == <<budget, pc, op, email, password, cid, result>>
vars == <<users, lock, txn, conns, now, budget, pc, op, email, password, cid,
          result, hist>>

NoPw == <<>>
NoEmail == <<>>
NoHist == [reg |-> NoPw, cur |-> NoPw, old |-> NoPw, activated |-> FALSE,
           reset |-> FALSE, last |-> "none"]

\* No call has been made yet, n calls can be, and the file holds this table.
StartWith(n, table) ==
    /\ budget = n
    /\ users = table
    /\ lock = NoConn
    /\ txn = [p \in Procs |-> {}]
    /\ conns = {}
    /\ now = 1
    /\ pc = [p \in Procs |-> "idle"]
    /\ op = [p \in Procs |-> "none"]
    /\ email = [p \in Procs |-> NoEmail]
    /\ password = [p \in Procs |-> NoPw]
    /\ cid = [p \in Procs |-> NoConn]
    /\ result = [p \in Procs |-> NoResult]
    /\ hist = [e \in Emails |-> NoHist]

\* The state once create_database has run on a new file (line 251): the
\* users table exists and is empty.
Start(n) == StartWith(n, {})

\* ------------------------------------------------------------ call steps
Idle(p) == pc[p] = "idle"

\* A caller takes the outcome of its call before anything else happens:
\* Return changes only the caller's own frame, so every interleaving has the
\* same calls, outcomes and table as one in which Return comes at once.
Settled == \A q \in Procs : pc[q] # "done"
At(p, label) == Settled /\ pc[p] = label
CanCall(p) == At(p, "idle") /\ budget > 0

\* has a register_user for this email succeeded?
Registered(e) == e \in Emails /\ hist[e].reg # NoPw

\* the call binds its arguments
Bind(p, o, e, pw) ==
    /\ budget' = budget - 1
    /\ op' = [op EXCEPT ![p] = o]
    /\ email' = [email EXCEPT ![p] = e]
    /\ password' = [password EXCEPT ![p] = pw]

\* the call ends before its first statement: return ok, msg
Refuse(p, o, e, pw, r) ==
    /\ Bind(p, o, e, pw)
    /\ pc' = [pc EXCEPT ![p] = "done"]
    /\ result' = [result EXCEPT ![p] = r]
    /\ UNCHANGED <<cid, conns>>

\* the call opens its connection: conn = sqlite3.connect(db_path)
Enter(p, o, e, pw, label) ==
    /\ Bind(p, o, e, pw)
    /\ pc' = [pc EXCEPT ![p] = label]
    /\ cid' = [cid EXCEPT ![p] = <<p, budget>>]
    /\ conns' = conns \cup {<<p, budget>>}
    /\ UNCHANGED result

\* the call ends: return ok, msg, or an exception leaves it
Leave(p, r) ==
    /\ pc' = [pc EXCEPT ![p] = "done"]
    /\ result' = [result EXCEPT ![p] = r]
    /\ UNCHANGED <<budget, op, email, password, cid>>

Goto(p, label) ==
    /\ pc' = [pc EXCEPT ![p] = label]
    /\ UNCHANGED <<budget, op, email, password, cid, result>>

\* the caller has the outcome of its call and drops the call's frame
Return(p) ==
    /\ pc[p] = "done"
    /\ pc' = [pc EXCEPT ![p] = "idle"]
    /\ op' = [op EXCEPT ![p] = "none"]
    /\ email' = [email EXCEPT ![p] = NoEmail]
    /\ password' = [password EXCEPT ![p] = NoPw]
    /\ cid' = [cid EXCEPT ![p] = NoConn]
    /\ result' = [result EXCEPT ![p] = NoResult]
    /\ UNCHANGED <<storeVars, budget, hist>>

\* conn.close()
Close(p) == conns' = conns \ {cid[p]}

\* conn.commit(): the transaction's writes become the table, the lock is released
Commit(p) ==
    /\ users' = txn[p]
    /\ txn' = [txn EXCEPT ![p] = {}]
    /\ lock' = NoConn

BeginUnlocked(p) == lock' = cid[p]

\* the first INSERT or UPDATE of a connection opens its transaction
Begin(p) ==
    /\ lock = NoConn
    /\ lock' = cid[p]

\* CURRENT_TIMESTAMP: the clock never runs backwards
Timestamps == now..MaxClock

\* ------------------------------------------------------- create_database
\* a table that exists is dropped and created anew
create_database_recreate(p) ==
    /\ CanCall(p)
    /\ lock = NoConn
    /\ Refuse(p, "create_database", NoEmail, NoPw, Returned(TRUE, ""))
    /\ users' = {}
    /\ UNCHANGED <<lock, txn, now, hist>>

\* connect; CREATE TABLE IF NOT EXISTS users (...); commit; close: a missing
\* table is created empty (a write: it waits for the lock), an existing one
\* is left as it is
create_database(p) ==
    /\ CanCall(p)
    /\ users = NoTable => lock = NoConn
    /\ Refuse(p, "create_database", NoEmail, NoPw, Returned(TRUE, ""))
    /\ users' = IF users = NoTable THEN {} ELSE users
    /\ UNCHANGED <<lock, txn, now, hist>>

\* --------------------------------------------------------- register_user
register_user(p) ==
    /\ CanCall(p)
    /\ \E e \in Emails, pw \in Passwords :
        IF ~is_valid_email(e)
          THEN Refuse(p, "register", e, pw, Returned(FALSE, MsgInvalidEmail))
          ELSE IF ~is_valid_password(pw)
                 THEN Refuse(p, "register", e, pw, Returned(FALSE, MsgWeakPassword))
                 ELSE Enter(p, "register", e, pw, "reg_select")
    /\ UNCHANGED <<users, lock, txn, now, hist>>

\* cursor.execute on a file without the table raises sqlite3.OperationalError
\* ("no such table: users"), which leaves the call with its connection open
NoSuchTable(p) ==
    /\ Leave(p, Raised("OperationalError"))
    /\ UNCHANGED conns

\* SELECT * FROM users WHERE email = ?; if cursor.fetchone(): close, return
RegSelect(p) ==
    /\ At(p, "reg_select")
    /\ IF users = NoTable
         THEN NoSuchTable(p)
         ELSE IF fetchone(Matching(users, email[p])) # NoRow
                THEN Close(p) /\ Leave(p, Returned(FALSE, MsgDuplicate))
                ELSE Goto(p, "reg_insert") /\ UNCHANGED conns
    /\ UNCHANGED <<users, lock, txn, now, hist>>

\* INSERT INTO users ...: the UNIQUE constraint raises sqlite3.IntegrityError,
\* which leaves the call with its connection open and its transaction begun
RegInsert(p) ==
    /\ At(p, "reg_insert")
    /\ Begin(p)
    /\ IF UniqueOk(users, email[p])
         THEN /\ \E t \in Timestamps :
                   /\ now' = t
                   /\ txn' = [txn EXCEPT ![p] =
                                users \cup {NewRow(users, email[p], password[p], t)}]
              /\ Goto(p, "reg_commit")
         ELSE /\ Leave(p, Raised("IntegrityError"))
              /\ UNCHANGED <<txn, now>>
    /\ UNCHANGED <<users, conns, hist>>

\* conn.commit(); conn.close(); return True, "Registration successful"
RegCommit(p) ==
    /\ At(p, "reg_commit")
    /\ Commit(p)
    /\ Close(p)
    /\ Leave(p, Returned(TRUE, MsgRegistered))
    /\ hist' = [hist EXCEPT ![email[p]] =
                   [@ EXCEPT !.reg = password[p], !.cur = password[p], !.last = "register"]]
    /\ UNCHANGED now

\* --------------------------------------------------------- activate_user
activate_user(p) ==
    /\ CanCall(p)
    /\ \E e \in Emails : Enter(p, "activate", e, NoPw, "act_select")
    /\ UNCHANGED <<users, lock, txn, now, hist>>

\* SELECT * FROM users WHERE email = ?; if cursor.fetchone() is None: close, return
ActSelect(p) ==
    /\ At(p, "act_select")
    /\ IF users = NoTable
         THEN NoSuchTable(p)
         ELSE IF fetchone(Matching(users, email[p])) = NoRow
                THEN Close(p) /\ Leave(p, Returned(FALSE, MsgNotFound))
                ELSE Goto(p, "act_update") /\ UNCHANGED conns
    /\ UNCHANGED <<users, lock, txn, now, hist>>

\* UPDATE users SET is_active = ?, activation_date = CURRENT_TIMESTAMP WHERE email = ?
ActUpdate(p) ==
    /\ At(p, "act_update")
    /\ Begin(p)
    /\ \E t \in Timestamps :
         /\ now' = t
         /\ txn' = [txn EXCEPT ![p] = ActivateRows(users, email[p], t)]
    /\ Goto(p, "act_commit")
    /\ UNCHANGED <<users, conns, hist>>

\* conn.commit(); conn.close(); return True, "User activated"
ActCommit(p) ==
    /\ At(p, "act_commit")
    /\ Commit(p)
    /\ Close(p)
    /\ Leave(p, Returned(TRUE, MsgActivated))
    /\ hist' = [hist EXCEPT ![email[p]] =
                   [@ EXCEPT !.activated = TRUE, !.last = "activate"]]
    /\ UNCHANGED now

\* ----------------------------------------------------- authenticate_user
authenticate_user(p) ==
    /\ CanCall(p)
    /\ \E e \in Emails, pw \in Passwords : Enter(p, "authenticate", e, pw, "auth_select")
    /\ UNCHANGED <<users, lock, txn, now, hist>>

\* a failed attempt deactivates the account
AuthSelectLockout(p) ==
    /\ At(p, "auth_select")
    /\ IF users = NoTable
         THEN NoSuchTable(p) /\ UNCHANGED users
         ELSE IF AuthAccepts(fetchone(Matching(users, email[p])), password[p])
                THEN Leave(p, Returned(TRUE, MsgAuthOk)) /\ UNCHANGED <<conns, users>>
                ELSE /\ Close(p)
                     /\ Leave(p, Returned(FALSE, MsgAuthFail))
                     /\ users' = {IF r.email = email[p]
                                    THEN [r EXCEPT !.is_active = 0, !.activation_date = NULL]
                                    ELSE r : r \in users}
    /\ UNCHANGED <<lock, txn, now, hist>>

\* SELECT password, is_active FROM users WHERE email = ?; the successful
\* return (line 207) comes before conn.close() (line 209)
AuthSelect(p) ==
    /\ At(p, "auth_select")
    /\ IF users = NoTable
         THEN NoSuchTable(p)
         ELSE IF AuthAccepts(fetchone(Matching(users, email[p])), password[p])
                THEN Leave(p, Returned(TRUE, MsgAuthOk)) /\ UNCHANGED conns
                ELSE Close(p) /\ Leave(p, Returned(FALSE, MsgAuthFail))
    /\ UNCHANGED <<users, lock, txn, now, hist>>

\* -------------------------------------------------------- reset_password
reset_password_unchecked(p) ==
    /\ CanCall(p)
    /\ \E e \in Emails, pw \in Passwords : Enter(p, "reset", e, pw, "rst_select")
    /\ UNCHANGED <<users, lock, txn, now, hist>>

reset_password(p) ==
    /\ CanCall(p)
    /\ \E e \in Emails, pw \in Passwords :
        IF ~is_valid_password(pw)
          THEN Refuse(p, "reset", e, pw, Returned(FALSE, MsgWeakPassword))
          ELSE Enter(p, "reset", e, pw, "rst_select")
    /\ UNCHANGED <<users, lock, txn, now, hist>>

\* SELECT * FROM users WHERE email = ?; if cursor.fetchone() is None: close, return
RstSelect(p) ==
    /\ At(p, "rst_select")
    /\ IF users = NoTable
         THEN NoSuchTable(p)
         ELSE IF fetchone(Matching(users, email[p])) = NoRow
                THEN Close(p) /\ Leave(p, Returned(FALSE, MsgNotFound))
                ELSE Goto(p, "rst_update") /\ UNCHANGED conns
    /\ UNCHANGED <<users, lock, txn, now, hist>>

\* UPDATE users SET password = ? WHERE email = ?
RstUpdate(p) ==
    /\ At(p, "rst_update")
    /\ Begin(p)
    /\ txn' = [txn EXCEPT ![p] = ResetRows(users, email[p], password[p])]
    /\ Goto(p, "rst_commit")
    /\ UNCHANGED <<users, conns, now, hist>>

\* conn.commit(); conn.close(); return True, "Password reset successfully"
RstCommit(p) ==
    /\ At(p, "rst_commit")
    /\ Commit(p)
    /\ Close(p)
    /\ Leave(p, Returned(TRUE, MsgReset))
    /\ hist' = [hist EXCEPT ![email[p]] =
                   [reg |-> @.reg, cur |-> password[p], old |-> @.cur,
                    activated |-> @.activated, reset |-> TRUE, last |-> "reset"]]
    /\ UNCHANGED now

\* ----------------------------------------------------------- environment
\* A connection its call has left open is closed when the runtime finalises
\* it; an open transaction is rolled back and its lock released.
Finalize(c) ==
    /\ Settled
    /\ c \in conns
    /\ \A p \in Procs : cid[p] # c
    /\ conns' = conns \ {c}
    /\ lock' = IF lock = c THEN NoConn ELSE lock
    /\ UNCHANGED <<users, txn, now, callVars, hist>>

GC == \E c \in conns : Finalize(c)

Next ==
    \/ \E p \in Procs :
        \/ create_database(p)
        \/ register_user(p) \/ RegSelect(p) \/ RegInsert(p) \/ RegCommit(p)
        \/ activate_user(p) \/ ActSelect(p) \/ ActUpdate(p) \/ ActCommit(p)
        \/ authenticate_user(p) \/ AuthSelect(p)
        \/ reset_password(p) \/ RstSelect(p) \/ RstUpdate(p) \/ RstCommit(p)
        \/ Return(p)
    \/ GC

\* callers run concurrently, interleaved at the SQL statements
Init == Start(MaxCalls)
Spec == Init /\ [][Next]_vars

\* one call at a time: a call begins only when no other call is in progress
Alone(p) == \A q \in Procs \ {p} : Idle(q)

NextSeq ==
    \/ \E p \in Procs :
        \/ Alone(p) /\ create_database(p)
        \/ Alone(p) /\ register_user(p)
        \/ Alone(p) /\ activate_user(p)
        \/ Alone(p) /\ authenticate_user(p)
        \/ Alone(p) /\ reset_password(p)
        \/ RegSelect(p) \/ RegInsert(p) \/ RegCommit(p)
        \/ ActSelect(p) \/ ActUpdate(p) \/ ActCommit(p)
        \/ AuthSelect(p)
        \/ RstSelect(p) \/ RstUpdate(p) \/ RstCommit(p)
        \/ Return(p)
    \/ GC

InitSeq == Start(MaxSeqCalls)
SeqSpec == InitSeq /\ [][NextSeq]_vars

\* one call at a time on a new file, on which create_database has not run
InitDb == StartWith(MaxDbCalls, NoTable)
DbSpec == InitDb /\ [][NextSeq]_vars

\* ------------------------------------------------------------ validators
\* The validators on their own: one caller holds a string and calls the
\* validator on it; the outcome is the boolean it returns.
StringsUpTo(chars, n) == UNION {[1..m -> chars] : m \in 0..n}

\* every character of the special class, digits, letters of both cases and
\* punctuation outside the class
PwChars == Specials \cup {"a", "A", "0", "9", "-", "_", "\\", "'"}
PwStrings == StringsUpTo(PwChars, MaxPwLen)

\* a letter, a digit, the two separators and a character of no class
EmailChars == {"a", "1", "@", ".", "!"}
EmailStrings == StringsUpTo(EmailChars, MaxEmailLen)

\* p1 is about to call validator o on e or pw; the table is as in Start
Holding(o, e, pw) ==
    /\ budget = 1
    /\ users = {}
    /\ lock = NoConn
    /\ txn = [p \in Procs |-> {}]
    /\ conns = {}
    /\ now = 1
    /\ pc = [p \in Procs |-> "idle"]
    /\ op = [p \in Procs |-> IF p = "p1" THEN o ELSE "none"]
    /\ email = [p \in Procs |-> IF p = "p1" THEN e ELSE NoEmail]
    /\ password = [p \in Procs |-> IF p = "p1" THEN pw ELSE NoPw]
    /\ cid = [p \in Procs |-> NoConn]
    /\ result = [p \in Procs |-> NoResult]
    /\ hist = [x \in Emails |-> NoHist]

\* return True / return False
Answer(p, b) ==
    /\ budget' = budget - 1
    /\ pc' = [pc EXCEPT ![p] = "done"]
    /\ result' = [result EXCEPT ![p] = Returned(b, "")]
    /\ UNCHANGED <<storeVars, op, email, password, cid, hist>>

CallIsValidPassword(p) ==
    /\ CanCall(p)
    /\ op[p] = "is_valid_password"
    /\ Answer(p, is_valid_password(password[p]))

CallIsValidEmail(p) ==
    /\ CanCall(p)
    /\ op[p] = "is_valid_email"
    /\ Answer(p, is_valid_email(email[p]))

InitPw == \E pw \in PwStrings : Holding("is_valid_password", NoEmail, pw)
NextPw == \E p \in Procs : CallIsValidPassword(p)
PwSpec == InitPw /\ [][NextPw]_vars

InitEmail == \E e \in EmailStrings : Holding("is_valid_email", e, NoPw)
NextEmail == \E p \in Procs : CallIsValidEmail(p)
EmailSpec == InitEmail /\ [][NextEmail]_vars


\* ================================================================ claims
Done(p, o) == pc[p] = "done" /\ op[p] = o
\* the step in which p's call of o ends
Ends(p, o) == pc[p] # "done" /\ pc'[p] = "done" /\ op'[p] = o
Rows(table, e) == {r \in table : r.email = e}

\* C1: authenticate_user returns (True, "Authentication successful") if and
\* only if the table holds a record with that email whose stored password is
\* hash_password(password) and whose is_active is true; in every other case
\* it returns (False, "Invalid credentials or account not activated").
\* (While a call is "done" the table is the one its SELECT read.)
C1_AuthenticateIff ==
    \A p \in Procs : Done(p, "authenticate") =>
        result[p] =
            IF \E r \in users : /\ r.email = email[p]
                                /\ r.password = hash_password(password[p])
                                /\ r.is_active = 1
              THEN Returned(TRUE, MsgAuthOk)
              ELSE Returned(FALSE, MsgAuthFail)

C1_Witness ==
    \E p \in Procs : Done(p, "authenticate") /\ result[p] = Returned(TRUE, MsgAuthOk)

\* C2: with one call at a time, register_user checks the email format, then
\* the password, then whether the email is registered, each with its own
\* message and no change to the table; otherwise it inserts exactly one
\* record with password = hash_password(password), is_active = false and
\* activation_date = NULL and returns (True, "Registration successful").
C2_RegisterOrder ==
    [][\A p \in Procs : Ends(p, "register") =>
        LET e == email'[p]
            pw == password'[p]
        IN  IF ~is_valid_email(e)
              THEN result'[p] = Returned(FALSE, MsgInvalidEmail) /\ users' = users
            ELSE IF ~is_valid_password(pw)
              THEN result'[p] = Returned(FALSE, MsgWeakPassword) /\ users' = users
            ELSE IF Rows(users, e) # {}
              THEN result'[p] = Returned(FALSE, MsgDuplicate) /\ users' = users
            ELSE /\ result'[p] = Returned(TRUE, MsgRegistered)
                 /\ \E r \in users' :
                      /\ r \notin users
                      /\ users' = users \cup {r}
                      /\ r.email = e
                      /\ r.password = hash_password(pw)
                      /\ r.is_active = 0
                      /\ r.activation_date = NULL]_vars

C2_Witness ==
    \E p \in Procs :
        /\ Done(p, "register")
        /\ result[p] = Returned(TRUE, MsgRegistered)
        /\ \E r \in users : r.email = email[p] /\ r.is_active = 0

\* C3 as stated: with one call at a time, the first register_user for an
\* email (valid email and password) succeeds, and every register_user for
\* that email after it fails with "Email already registered", whatever its
\* password.
C3_SecondAnyPassword ==
    [][\A p \in Procs : (Ends(p, "register") /\ is_valid_email(email'[p])) =>
        IF Registered(email'[p])
          THEN result'[p] = Returned(FALSE, MsgDuplicate)
          ELSE is_valid_password(password'[p])
                 => result'[p] = Returned(TRUE, MsgRegistered)]_vars

\* C3 amended: the first register_user for an email (valid email and
\* password) succeeds; every later one for that email fails, with "Email
\* already registered" when its password is valid and with the password
\* message when it is not.
C3_SecondValidPassword ==
    [][\A p \in Procs : (Ends(p, "register") /\ is_valid_email(email'[p])) =>
        IF Registered(email'[p])
          THEN result'[p] = IF is_valid_password(password'[p])
                              THEN Returned(FALSE, MsgDuplicate)
                              ELSE Returned(FALSE, MsgWeakPassword)
          ELSE is_valid_password(password'[p])
                 => result'[p] = Returned(TRUE, MsgRegistered)]_vars

C3_Witness ==
    \E p \in Procs :
        /\ Done(p, "register")
        /\ result[p] = Returned(FALSE, MsgDuplicate)
        /\ hist[email[p]].reg # password[p]

\* C4: for an email registered with password pw, authenticate_user(email, pw)
\* fails while no activate_user(email) has succeeded, and succeeds once one
\* has, as long as no reset_password on that email has succeeded.
C4_ActivationGates ==
    \A p \in Procs :
        (Done(p, "authenticate") /\ Registered(email[p])
           /\ password[p] = hist[email[p]].reg) =>
            /\ ~hist[email[p]].activated
                 => result[p] = Returned(FALSE, MsgAuthFail)
            /\ (hist[email[p]].activated /\ ~hist[email[p]].reset)
                 => result[p] = Returned(TRUE, MsgAuthOk)

C4_Witness ==
    \E p \in Procs :
        /\ Done(p, "authenticate") /\ Registered(email[p])
        /\ password[p] = hist[email[p]].reg
        /\ hist[email[p]].activated /\ ~hist[email[p]].reset
        /\ result[p].ok

\* C5 as stated: when the last successful write to an email's record is a
\* reset_password(email, new), authenticate_user fails with the password
\* accepted before the reset and succeeds with new.
C5_ResetSwitches ==
    \A p \in Procs :
        (Done(p, "authenticate") /\ email[p] \in Emails
           /\ hist[email[p]].last = "reset") =>
            /\ password[p] = hist[email[p]].old => ~result[p].ok
            /\ password[p] = hist[email[p]].cur => result[p].ok

\* C5 amended: after such a reset, authenticate_user with the earlier
\* password fails when it differs from new, and authenticate_user with new
\* succeeds exactly when an activate_user for that email has succeeded.
C5_ResetSwitchesActive ==
    \A p \in Procs :
        (Done(p, "authenticate") /\ email[p] \in Emails
           /\ hist[email[p]].last = "reset") =>
            /\ (password[p] = hist[email[p]].old
                  /\ hist[email[p]].old # hist[email[p]].cur) => ~result[p].ok
            /\ password[p] = hist[email[p]].cur
                 => (result[p].ok <=> hist[email[p]].activated)

C5_Witness ==
    \E p \in Procs :
        /\ Done(p, "authenticate") /\ email[p] \in Emails
        /\ hist[email[p]].last = "reset"
        /\ hist[email[p]].old # hist[email[p]].cur
        /\ password[p] = hist[email[p]].cur
        /\ result[p] = Returned(TRUE, MsgAuthOk)

\* C6: under concurrent callers, reset_password checks the new password
\* first (its message even when no record matches the email), then the
\* record ("User not found"); otherwise, whether the record is active or
\* not, it leaves the record's password equal to hash_password(new_password)
\* and returns (True, "Password reset successfully").  (No call deletes or,
\* but for register_user, adds a record, and while a call is "done" the
\* table is the one its last statement left.)
C6_ResetOrder ==
    \A p \in Procs : Done(p, "reset") =>
        IF ~is_valid_password(password[p])
          THEN result[p] = Returned(FALSE, MsgWeakPassword)
        ELSE IF Rows(users, email[p]) = {}
          THEN result[p] = Returned(FALSE, MsgNotFound)
        ELSE /\ result[p] = Returned(TRUE, MsgReset)
             /\ \A r \in Rows(users, email[p]) :
                  r.password = hash_password(password[p])

C6_Witness ==
    \E p \in Procs :
        /\ Done(p, "reset")
        /\ result[p] = Returned(TRUE, MsgReset)
        /\ \E r \in users : /\ r.email = email[p]
                            /\ r.is_active = 0
                            /\ r.password = hash_password(password[p])

\* C7: under every interleaving of concurrent calls, the users table holds
\* at most one record per email.
C7_OneRecordPerEmail ==
    \A r1 \in users : \A r2 \in users : r1.email = r2.email => r1 = r2

\* two register_user calls passed the existence check and the second INSERT
\* met the first one's record
C7_Witness ==
    \E p \in Procs :
        /\ Done(p, "register")
        /\ result[p] = Raised("IntegrityError")
        /\ Cardinality(Rows(users, email[p])) = 1

\* C8: every register_user call ends with a (bool, message) pair, never an
\* exception: with a duplicate email, (False, "Email already registered").
C8_DuplicateIsValue ==
    \A p \in Procs : Done(p, "register") => IsPair(result[p])

\* C9: for every record, activation_date is non-null iff is_active is true.
C9_ActivationDateIffActive ==
    \A r \in users : (r.activation_date # NULL) <=> (r.is_active = 1)

C9_Witness ==
    \E r \in users : r.is_active = 1 /\ r.activation_date # NULL

\* C10: every record's stored password is hash_password of the password of
\* the last successful register_user or reset_password for its email: never
\* that password itself, and never the hash of the one a reset replaced.
C10_PasswordIsLatestHash ==
    \A r \in users :
        LET h == hist[r.email]
        IN  /\ r.password = hash_password(h.cur)
            /\ r.password # h.cur
            /\ (h.reset /\ h.old # h.cur) => r.password # hash_password(h.old)

\* a reset_password has succeeded while another one for the same email, with
\* another password, has read the record and not yet written
C10_Witness ==
    \E p \in Procs : \E q \in Procs \ {p} :
        /\ Done(p, "reset") /\ result[p] = Returned(TRUE, MsgReset)
        /\ pc[q] = "rst_update"
        /\ email[q] = email[p]
        /\ password[q] # password[p]

\* C11: the lifecycle only moves forward: a record that exists still exists
\* after every step, and a record whose is_active is true still has it true
\* after every step, whichever operation takes the step.
C11_LifecycleMonotonic ==
    [][\A r \in users : \E r2 \in users' :
          /\ r2.email = r.email
          /\ r.is_active = 1 => r2.is_active = 1]_vars

\* a reset_password has succeeded on an active record, and a register_user
\* for a registered email has been rejected
C11_Witness ==
    \E p \in Procs :
        /\ \/ Done(p, "reset") /\ result[p] = Returned(TRUE, MsgReset)
           \/ Done(p, "register") /\ result[p] = Returned(FALSE, MsgDuplicate)
        /\ \E r \in users : r.email = email[p] /\ r.is_active = 1

\* C12: activate_user returns (False, "User not found") when no record
\* matches the email; for every record that does, inactive or already
\* active, its UPDATE sets is_active = true and activation_date to the
\* current time, and the call returns (True, "User activated").
C12_ActivateContract ==
    \A p \in Procs :
        /\ pc[p] = "act_commit" =>
             /\ Rows(txn[p], email[p]) # {}
             /\ \A r \in Rows(txn[p], email[p]) :
                  r.is_active = 1 /\ r.activation_date = now
        /\ Done(p, "activate") =>
             IF Rows(users, email[p]) = {}
               THEN result[p] = Returned(FALSE, MsgNotFound)
               ELSE /\ result[p] = Returned(TRUE, MsgActivated)
                    /\ \A r \in Rows(users, email[p]) :
                         r.is_active = 1 /\ r.activation_date = now

\* the UPDATE of a second activation has run on a record that is active
C12_Witness ==
    \E p \in Procs :
        /\ pc[p] = "act_commit"
        /\ \E r \in Rows(users, email[p]) : r.is_active = 1

\* C13 as stated: once a record's activation_date is non-null, no step
\* changes its value.
C13_ActivationDateSetOnce ==
    [][\A r \in users : r.activation_date # NULL =>
          \E r2 \in users' :
              r2.id = r.id /\ r2.activation_date = r.activation_date]_vars

\* C13 amended: once a record's activation_date is non-null it stays
\* non-null, and only a successful activate_user for its email changes its
\* value, to the time of that activation, which is not earlier.
C13_ActivationDateRestamped ==
    [][\A r \in users : r.activation_date # NULL =>
          \E r2 \in users' :
              /\ r2.id = r.id
              /\ r2.activation_date # NULL
              /\ r2.activation_date # r.activation_date =>
                   /\ r2.activation_date > r.activation_date
                   /\ \E p \in Procs :
                        /\ Ends(p, "activate")
                        /\ email'[p] = r.email
                        /\ result'[p] = Returned(TRUE, MsgActivated)]_vars

\* a second activation is about to commit another activation_date
C13_Witness ==
    \E p \in Procs :
        /\ pc[p] = "act_commit"
        /\ \E r \in users : \E r2 \in txn[p] :
             /\ r2.id = r.id
             /\ r.activation_date # NULL
             /\ r2.activation_date # r.activation_date

\* C14: is_valid_password(p) is true if and only if p holds at least one
\* decimal digit and at least one of ! @ # $ % ^ & * ( ) , . ? " : { } | < >;
\* it is false for the empty string; length and letter case play no part.
C14_SpecialSet == {"!", "@", "#", "$", "%", "^", "&", "*", "(", ")", ",", ".",
                   "?", "\"", ":", "{", "}", "|", "<", ">"}
C14_DecimalDigits == {"0", "1", "2", "3", "4", "5", "6", "7", "8", "9"}
C14_Has(s, chars) == \E n \in DOMAIN s : s[n] \in chars

C14_PasswordIff ==
    \A p \in Procs : Done(p, "is_valid_password") =>
        /\ result[p].ok = (/\ C14_Has(password[p], C14_DecimalDigits)
                           /\ C14_Has(password[p], C14_SpecialSet))
        /\ password[p] = <<>> => result[p].ok = FALSE

\* a password of one digit and one special character, no letter, is valid
C14_Witness ==
    \E p \in Procs :
        /\ Done(p, "is_valid_password")
        /\ result[p].ok = TRUE
        /\ Len(password[p]) = 2
        /\ \A n \in 1..2 : password[p][n] \notin Letters

\* C15: is_valid_email(s) is true if and only if some prefix of s is one or
\* more of [a-zA-Z0-9._%+-], then '@', then one or more of [a-zA-Z0-9.-],
\* then '.', then two or more letters; whatever follows that prefix is
\* accepted; the empty string is rejected.
\* The pattern as an automaton: the places a reader of the pattern can be.
C15_Letter(c) == c \in Lower \cup Upper
C15_Digit(c) == c \in {"0", "1", "2", "3", "4", "5", "6", "7", "8", "9"}
C15_Local(c) == C15_Letter(c) \/ C15_Digit(c) \/ c \in {".", "_", "%", "+", "-"}
C15_Domain(c) == C15_Letter(c) \/ C15_Digit(c) \/ c \in {".", "-"}

C15_Move(q, c) ==
    CASE q = "start" -> IF C15_Local(c) THEN {"local"} ELSE {}
      [] q = "local" -> (IF C15_Local(c) THEN {"local"} ELSE {})
                        \cup (IF c = "@" THEN {"at"} ELSE {})
      [] q = "at" -> IF C15_Domain(c) THEN {"domain"} ELSE {}
      [] q = "domain" -> (IF C15_Domain(c) THEN {"domain"} ELSE {})
                         \cup (IF c = "." THEN {"dot"} ELSE {})
      [] q = "dot" -> IF C15_Letter(c) THEN {"letter"} ELSE {}
      [] q = "letter" -> IF C15_Letter(c) THEN {"matched"} ELSE {}
      [] OTHER -> {}

RECURSIVE C15_After(_, _)
C15_After(s, n) ==
    IF n = 0 THEN {"start"}
    ELSE UNION {C15_Move(q, s[n]) : q \in C15_After(s, n - 1)}

C15_PrefixMatches(s) == \E n \in 0..Len(s) : "matched" \in C15_After(s, n)

C15_EmailIff ==
    \A p \in Procs : Done(p, "is_valid_email") =>
        /\ result[p].ok = C15_PrefixMatches(email[p])
        /\ email[p] = <<>> => result[p].ok = FALSE

\* an address followed by a character of no class is accepted
C15_Witness ==
    \E p \in Procs :
        /\ Done(p, "is_valid_email")
        /\ result[p].ok = TRUE
        /\ Len(email[p]) = MaxEmailLen
        /\ email[p][MaxEmailLen] = "!"

\* C16: create_database is idempotent: a call on a file whose users table
\* exists leaves the table and its records as they are, and after any call
\* the table exists.
C16_CreateIdempotent ==
    [][\A p \in Procs : Ends(p, "create_database") =>
          /\ users' # NoTable
          /\ users # NoTable => users' = users]_vars

\* create_database has run on a table that holds a record
C16_Witness ==
    \E p \in Procs :
        /\ Done(p, "create_database")
        /\ users # NoTable
        /\ users # {}

\* C17: every operation releases its connection on every exit path:
\* whenever no operation is in progress, no connection is open.
C17_ConnectionsReleased ==
    (\A p \in Procs : Idle(p)) => conns = {}

\* C18: every step leaves each record's id, email and registration_date as
\* they are; is_active and activation_date change only for the record of the
\* email of an activate_user that ends successfully in that step, and nothing
\* else of it changes; the password changes only for the record of the email
\* of a reset_password that ends successfully in that step, and nothing else
\* of it changes; a record is added only by a register_user that ends
\* successfully, one record, for its email, with every other record kept.
C18_Same(r, r2, fields) == \A f \in fields : r2[f] = r[f]

C18_Frame ==
    [][/\ \A r \in users : \E r2 \in users' :
            /\ C18_Same(r, r2, {"id", "email", "registration_date"})
            /\ ~C18_Same(r, r2, {"is_active", "activation_date"}) =>
                 /\ r2.password = r.password
                 /\ \E p \in Procs :
                      /\ Ends(p, "activate")
                      /\ result'[p] = Returned(TRUE, MsgActivated)
                      /\ email'[p] = r.email
            /\ r2.password # r.password =>
                 /\ C18_Same(r, r2, {"is_active", "activation_date"})
                 /\ \E p \in Procs :
                      /\ Ends(p, "reset")
                      /\ result'[p] = Returned(TRUE, MsgReset)
                      /\ email'[p] = r.email
       /\ Cardinality(users') # Cardinality(users) =>
            \E p \in Procs :
                /\ Ends(p, "register")
                /\ result'[p] = Returned(TRUE, MsgRegistered)
                /\ users \subseteq users'
                /\ Cardinality(users') = Cardinality(users) + 1
                /\ \A r2 \in users' \ users : r2.email = email'[p]]_vars

\* a reset_password has succeeded for one email while the table holds a
\* record of another email
C18_Witness ==
    \E p \in Procs :
        /\ Done(p, "reset")
        /\ result[p] = Returned(TRUE, MsgReset)
        /\ \E r \in users : r.email # email[p]

\* C19: the table changes only in a step that ends a register_user, an
\* activate_user or a reset_password with True: an operation that returns
\* False has changed nothing, and authenticate_user never changes anything.
C19_FailureChangesNothing ==
    [][users' # users =>
          \E p \in Procs :
              /\ Ends(p, "register") \/ Ends(p, "activate") \/ Ends(p, "reset")
              /\ result'[p].kind = "return"
              /\ result'[p].ok = TRUE]_vars

\* an operation has returned False, and so has an authenticate_user, on a
\* table that holds a record of its email
C19_Witness ==
    \E p \in Procs :
        /\ Done(p, "authenticate")
        /\ result[p] = Returned(FALSE, MsgAuthFail)
        /\ Rows(users, email[p]) # {}

\* C20: no update is lost when activate_user(email) and reset_password(email,
\* new_pw) overlap on an existing record: each returns True, and once both
\* have succeeded the record has is_active true, a non-null activation_date
\* and the hash of the last accepted password.
C20_NoLostUpdate ==
    /\ \A p \in Procs :
         /\ (Done(p, "activate") /\ Registered(email[p])) =>
              result[p] = Returned(TRUE, MsgActivated)
         /\ (Done(p, "reset") /\ Registered(email[p]) /\ is_valid_password(password[p])) =>
              /\ result[p] = Returned(TRUE, MsgReset)
              /\ \A r \in Rows(users, email[p]) :
                   r.password = hash_password(password[p])
    /\ \A e \in Emails : (hist[e].activated /\ hist[e].reset) =>
         /\ Rows(users, e) # {}
         /\ \A r \in Rows(users, e) :
              /\ r.is_active = 1
              /\ r.activation_date # NULL
              /\ r.password = hash_password(hist[e].cur)

\* one of the two has just succeeded while the other, for the same email,
\* is between its SELECT and its UPDATE
C20_Witness ==
    \E p \in Procs, q \in Procs :
        /\ email[p] = email[q]
        /\ \/ Done(p, "reset") /\ result[p].ok = TRUE /\ pc[q] = "act_update"
           \/ Done(p, "activate") /\ result[p].ok = TRUE /\ pc[q] = "rst_update"

====
